---- MODULE Spec2Model ----
(***************************************************************************)
(* State-machine model of the STLINK-V3 SPI bridge driver                  *)
(* (src/stlinkv3_spi.c): programmer initialisation (stlinkv3_spi_init and  *)
(* stlinkv3_spi_open), the SPI transaction (stlinkv3_spi_transmit) and the *)
(* shutdown hook (stlinkv3_spi_shutdown).                                  *)
(*                                                                         *)
(* The driver is single threaded and every bulk transfer blocks, so the    *)
(* model has one program counter.  Every libusb_bulk_transfer the driver   *)
(* issues is appended to the history variable xfers together with the      *)
(* outcome the USB stack reported for it; the outcome (completion code and *)
(* transferred length) and the bytes the bridge answers are the inputs of  *)
(* the model and are chosen nondeterministically.                          *)
(***************************************************************************)
EXTENDS Integers, Sequences, FiniteSets, TLC

(***************************************************************************)
(* Bounds of the model.                                                    *)
(***************************************************************************)
\* longest spispeed string enumerated over SpeedChars
MaxStrLen == 3
\* bridge clocks 0..MaxClk kHz are enumerated densely
MaxClk == 40
\* firmware version bytes 0..MaxFwVersion
MaxFwVersion == 4
\* write lengths 0..MaxWriteCnt are enumerated densely
MaxWriteCnt == 10
\* read lengths 0..MaxReadCnt are enumerated densely
MaxReadCnt == 2

(***************************************************************************)
(* Protocol constants.                                                     *)
(***************************************************************************)
ST_GETVERSION_EXT == 251
STLINK_BRIDGE_COMMAND == 252
STLINK_BRIDGE_CLOSE == 1
STLINK_BRIDGE_GET_RWCMD_STATUS == 2
STLINK_BRIDGE_GET_CLOCK == 3
STLINK_BRIDGE_INIT_SPI == 32
STLINK_BRIDGE_WRITE_SPI == 33
STLINK_BRIDGE_READ_SPI == 34
STLINK_BRIDGE_CS_SPI == 35
STLINK_SPI_COM == 2
STLINK_EP_OUT == 6
STLINK_EP_IN == 134
FIRMWARE_BRIDGE_STLINK_V3_LAST_VERSION == 3
SPI_NSS_LOW == 0
SPI_NSS_HIGH == 1
SPI_DIRECTION_2LINES_FULLDUPLEX == 0
SPI_MODE_MASTER == 1
SPI_CPHA_1EDGE == 0
SPI_CPOL_LOW == 0
SPI_FIRSTBIT_MSB == 1
SPI_DATASIZE_8B == 1
SPI_NSS_SOFT == 0
\* sizeof(command), and the answer sizes of the three kinds of answers
CommandLen == 16
AnswerLen12 == 12
AnswerLen2 == 2
AnswerLen8 == 8
\* default SCK frequency of stlinkv3_spi_init
DefaultSckFreq == 1000
\* number of payload bytes embedded in the write command frame
InlineBytes == 8

Pow2(n) == 2 ^ n
U8(x) == x % Pow2(8)
U16(x) == x % Pow2(16)

(***************************************************************************)
(* Inputs.                                                                 *)
(***************************************************************************)
\* characters the spispeed strings are built from
SpeedChars == {"0", "1", "8", "x", "k"}

RECURSIVE StringsUpTo(_)
StringsUpTo(n) ==
    IF n = 0 THEN {<<>>}
    ELSE LET shorter == StringsUpTo(n - 1)
         IN  shorter \cup {Append(s, c) : s \in {t \in shorter : Len(t) = n - 1},
                                          c \in SpeedChars}

\* longer spispeed values of interest: frequencies above the usual bridge
\* clock ratio, and the values around the 16-bit limit
ExtraSpeedStrs == { <<"2", "0", "0", "0", "0">>,
                    <<"2", "4", "0", "0", "0">>,
                    <<"6", "5", "5", "3", "5">>,
                    <<"6", "5", "5", "3", "6">> }

\* "NULL" stands for an absent spispeed parameter
SpeedParams == {<<"NULL">>} \cup StringsUpTo(MaxStrLen) \cup ExtraSpeedStrs

\* bridge clocks at the borders of the prescaler ranges, a usual bridge
\* clock, and clocks whose quotient does not fit 16 bits (the largest is
\* 2^31 - 1, the largest integer of the model checker; the uint32_t of the
\* driver reaches 2^32 - 1)
ExtraClks == {64, 65, 128, 129, 256, 257, 299, 48000, 131072, 2147483647}
Clks == (0..MaxClk) \cup ExtraClks

FwVersions == 0..MaxFwVersion

ExtraWriteCnts == {255, 256, 258, 65535}
WriteCnts == (0..MaxWriteCnt) \cup ExtraWriteCnts
WriteSeeds == {1, 250}
ExtraReadCnts == {258, 65535}
ReadCnts == (0..MaxReadCnt) \cup ExtraReadCnts

\* the two 16-bit halves of the status the bridge answers
StatusHalves == {0, 1}

\* result of one libusb_bulk_transfer of len bytes
Outcomes(len) == [rc : {"COMPLETED", "TIMEOUT"}, actual : {len, len - 1}]

(***************************************************************************)
(* strtoul(str, &endptr, 0) on the strings above: base 0 selects hex after *)
(* "0x", octal after "0", decimal otherwise; the digits that are valid in  *)
(* the base are consumed and endptr is left at the first other character.  *)
(***************************************************************************)
HexDigits == <<"0", "1", "2", "3", "4", "5", "6", "7", "8", "9",
               "a", "b", "c", "d", "e", "f">>
IsDigit(c, base) == \E i \in 1..base : HexDigits[i] = c
DigitVal(c) == (CHOOSE i \in 1..16 : HexDigits[i] = c) - 1

RECURSIVE ParseDigits(_, _, _)
ParseDigits(s, base, acc) ==
    IF s # <<>> /\ IsDigit(Head(s), base)
    THEN ParseDigits(Tail(s), base, acc * base + DigitVal(Head(s)))
    ELSE [val |-> acc, rest |-> s]

Strtoul(s) ==
    IF Len(s) >= 3 /\ s[1] = "0" /\ s[2] = "x" /\ IsDigit(s[3], 16)
    THEN ParseDigits(Tail(Tail(s)), 16, 0)
    ELSE IF s # <<>> /\ s[1] = "0"
    THEN ParseDigits(Tail(s), 8, 0)
    ELSE ParseDigits(s, 10, 0)

(***************************************************************************)
(* Frames and transfers.                                                   *)
(***************************************************************************)
\* memset(command, 0, sizeof(command)); C index i is TLA+ index i + 1
ZeroFrame == [i \in 1..CommandLen |-> 0]
SetByte(frame, i, v) == [frame EXCEPT ![i + 1] = v]
Byte(frame, i) == frame[i + 1]

TransferOk(o, len) == o.rc = "COMPLETED" /\ o.actual = len

\* one entry of the transfer history
CommandXfer(frame, o) ==
    [ep |-> STLINK_EP_OUT, tag |-> "command", frame |-> frame, off |-> 0,
     len |-> CommandLen, rc |-> o.rc, actual |-> o.actual, val |-> 0]
AnswerXfer(len, o, val) ==
    [ep |-> STLINK_EP_IN, tag |-> "answer", frame |-> <<>>, off |-> 0,
     len |-> len, rc |-> o.rc, actual |-> o.actual,
     val |-> IF TransferOk(o, len) THEN val ELSE 0]
DataXfer(ep, tag, off, len, o) ==
    [ep |-> ep, tag |-> tag, frame |-> <<>>, off |-> off,
     len |-> len, rc |-> o.rc, actual |-> o.actual, val |-> 0]

\* a command frame followed by its answer: the answer is only read when the
\* command went out
ExchangeOk(o1, o2, anslen) == TransferOk(o1, CommandLen) /\ TransferOk(o2, anslen)
ExchangeXfers(frame, anslen, o1, o2, val) ==
    IF TransferOk(o1, CommandLen)
    THEN <<CommandXfer(frame, o1), AnswerXfer(anslen, o2, val)>>
    ELSE <<CommandXfer(frame, o1)>>

(***************************************************************************)
(* State.                                                                  *)
(***************************************************************************)
VARIABLES
    pc,                   \* position of the driver
    usb_ctx,              \* "null", "live" or "exited" (after libusb_exit)
    stlinkv3_handle,      \* "null", "open" or "closed" (after libusb_close)
    exit_count,           \* number of libusb_exit calls
    close_count,          \* number of libusb_close calls
    speed_str,            \* the spispeed parameter init extracted
    sck_freq_kHz,         \* uint16_t requested frequency of init
    init_rc,              \* return value of stlinkv3_spi_init
    shutdown_registered,  \* register_shutdown succeeded
    master_registered,    \* register_spi_master succeeded
    fw_version,           \* answer[4] of the version query
    fw_check_result,      \* result of stlinkv3_check_version
    bridge_clk_in_kHz,    \* uint32_t clock decoded by stlinkv3_get_clk
    calculated_prescaler, \* bridge_clk_in_kHz / reqd_freq_in_kHz
    prescaler,            \* SPI_prescaler_t code
    prescaler_value,      \* divisor that belongs to the code
    SCK_freq_in_kHz,      \* uint16_t resulting frequency
    open_rc,              \* return value of stlinkv3_spi_open
    write_cnt,            \* arguments of stlinkv3_spi_transmit
    write_seed,
    read_cnt,
    command,              \* command[16] of stlinkv3_spi_transmit
    rw_status,            \* uint32_t rw_status of stlinkv3_spi_transmit
    tx_rc,                \* return value of stlinkv3_spi_transmit
    shutdown_rc,          \* return value of stlinkv3_spi_shutdown
    xfers                 \* bulk transfers issued by the running call

resVars == <<usb_ctx, stlinkv3_handle, exit_count, close_count>>
initVars == <<speed_str, sck_freq_kHz, init_rc, shutdown_registered, master_registered>>
calcVars == <<bridge_clk_in_kHz, calculated_prescaler, prescaler, prescaler_value,
              SCK_freq_in_kHz>>
openVars == <<fw_version, fw_check_result, calcVars, open_rc>>
txVars == <<write_cnt, write_seed, read_cnt, command, rw_status, tx_rc>>
vars == <<pc, resVars, initVars, openVars, txVars, shutdown_rc, xfers>>

\* locals that are not yet assigned hold 0; a return value is meaningful once
\* pc shows that the function has returned
Unset == "unset"

Init ==
    /\ pc = "init"
    /\ usb_ctx = "null"
    /\ stlinkv3_handle = "null"
    /\ exit_count = 0
    /\ close_count = 0
    /\ speed_str = <<"NULL">>
    /\ sck_freq_kHz = DefaultSckFreq
    /\ init_rc = 0
    /\ shutdown_registered = FALSE
    /\ master_registered = FALSE
    /\ fw_version = 0
    /\ fw_check_result = Unset
    /\ bridge_clk_in_kHz = 0
    /\ calculated_prescaler = 1
    /\ prescaler = 0
    /\ prescaler_value = 0
    /\ SCK_freq_in_kHz = 0
    /\ open_rc = 0
    /\ write_cnt = 0
    /\ write_seed = 0
    /\ read_cnt = 0
    /\ command = ZeroFrame
    /\ rw_status = 0
    /\ tx_rc = 0
    /\ shutdown_rc = 0
    /\ xfers = <<>>

\* the locals of a function are gone once another call is made: they are
\* set back to their initial values
InitLocalsGone ==
    /\ speed_str' = <<"NULL">>
    /\ sck_freq_kHz' = DefaultSckFreq
    /\ fw_version' = 0
    /\ fw_check_result' = Unset
    /\ bridge_clk_in_kHz' = 0
    /\ calculated_prescaler' = 1
    /\ prescaler' = 0
    /\ prescaler_value' = 0
    /\ SCK_freq_in_kHz' = 0
    /\ open_rc' = 0

TxLocalsGone ==
    /\ write_cnt' = 0
    /\ write_seed' = 0
    /\ read_cnt' = 0
    /\ command' = ZeroFrame
    /\ rw_status' = 0
    /\ tx_rc' = 0

(***************************************************************************)
(* stlinkv3_spi_init up to the call of stlinkv3_spi_open.                  *)
(***************************************************************************)
\* err_exit: libusb_exit(usb_ctx); return 1
InitErrExit ==
    /\ usb_ctx' = "exited"
    /\ exit_count' = exit_count + 1
    /\ init_rc' = 1
    /\ pc' = "init_done"

\* libusb_init(&usb_ctx); if (!usb_ctx) return 1
LibusbInit ==
    /\ pc = "init"
    /\ \E ok \in BOOLEAN :
         IF ok
         THEN /\ usb_ctx' = "live"
              /\ pc' = "find_dev"
              /\ UNCHANGED init_rc
         ELSE /\ init_rc' = 1
              /\ pc' = "init_done"
              /\ UNCHANGED usb_ctx
    /\ UNCHANGED <<stlinkv3_handle, exit_count, close_count, speed_str, sck_freq_kHz,
                   shutdown_registered, master_registered, openVars, txVars,
                   shutdown_rc, xfers>>

\* usb_dev_get_by_vid_pid_serial; if (!stlinkv3_handle) goto err_exit
FindDevice ==
    /\ pc = "find_dev"
    /\ \E found \in BOOLEAN :
         IF found
         THEN /\ stlinkv3_handle' = "open"
              /\ pc' = "parse_speed"
              /\ UNCHANGED <<usb_ctx, exit_count, init_rc>>
         ELSE /\ InitErrExit
              /\ UNCHANGED stlinkv3_handle
    /\ UNCHANGED <<close_count, speed_str, sck_freq_kHz, shutdown_registered,
                   master_registered, openVars, txVars, shutdown_rc, xfers>>

\* variant: only a value without any leading digit is refused
\* (endptr == speed_str)
SpeedInvalid_noDigits(str) == str # <<>> /\ Strtoul(str).rest = str

\* if (*endptr): characters are left after the number
SpeedInvalid(str) == Strtoul(str).rest # <<>>

\* speed_str = extract_programmer_param("spispeed") and its conversion; a
\* malformed value returns -1 at once (speed_str keeps the characters of a
\* well-formed value too, although their memory is freed)
ParseSpeed ==
    /\ pc = "parse_speed"
    /\ \E str \in SpeedParams :
         IF str = <<"NULL">>
         THEN /\ pc' = "check_version"
              /\ UNCHANGED <<speed_str, sck_freq_kHz, init_rc>>
         ELSE /\ sck_freq_kHz' = U16(Strtoul(str).val)
              /\ IF SpeedInvalid(str)
                 THEN /\ speed_str' = str
                      /\ init_rc' = -1
                      /\ pc' = "init_done"
                 ELSE /\ speed_str' = str
                      /\ pc' = "check_version"
                      /\ UNCHANGED init_rc
    /\ UNCHANGED <<resVars, shutdown_registered, master_registered, openVars, txVars,
                   shutdown_rc, xfers>>

(***************************************************************************)
(* stlinkv3_spi_open, called by stlinkv3_spi_init; a failing open makes    *)
(* init leave through err_exit.                                            *)
(***************************************************************************)
OpenFails ==
    /\ open_rc' = -1
    /\ InitErrExit

VersionFrame ==
    SetByte(SetByte(ZeroFrame, 0, ST_GETVERSION_EXT), 1, 128)

\* variant: the comparison is strict
FwCheck_strict(version) ==
    IF version > FIRMWARE_BRIDGE_STLINK_V3_LAST_VERSION
    THEN "FW_VERSION_OK" ELSE "FW_VERSION_OLD"

\* answer[4] >= FIRMWARE_BRIDGE_STLINK_V3_LAST_VERSION ? OK : OLD
FwCheck(version) ==
    IF version >= FIRMWARE_BRIDGE_STLINK_V3_LAST_VERSION
    THEN "FW_VERSION_OK" ELSE "FW_VERSION_OLD"

\* stlinkv3_check_version and the two tests open makes on its result
OpenCheckVersion ==
    /\ pc = "check_version"
    /\ \E o1 \in Outcomes(CommandLen), o2 \in Outcomes(AnswerLen12), v \in FwVersions :
         /\ xfers' = xfers \o ExchangeXfers(VersionFrame, AnswerLen12, o1, o2, v)
         /\ IF ~ExchangeOk(o1, o2, AnswerLen12)
            THEN /\ OpenFails
                 /\ UNCHANGED <<fw_version, fw_check_result>>
            ELSE /\ fw_version' = v
                 /\ fw_check_result' = FwCheck(v)
                 /\ IF FwCheck(v) # "FW_VERSION_OK"
                    THEN OpenFails
                    ELSE /\ pc' = "calc_prescaler"
                         /\ UNCHANGED <<usb_ctx, exit_count, init_rc, open_rc>>
    /\ UNCHANGED <<stlinkv3_handle, close_count, speed_str, sck_freq_kHz,
                   shutdown_registered, master_registered, calcVars, txVars,
                   shutdown_rc>>

GetClkFrame ==
    SetByte(SetByte(SetByte(ZeroFrame, 0, STLINK_BRIDGE_COMMAND),
                    1, STLINK_BRIDGE_GET_CLOCK), 2, STLINK_SPI_COM)

\* the 12-byte clock answer of a bridge that runs at c kHz
ClkAnswer(c) ==
    [i \in 1..AnswerLen12 |->
        IF i \in 5..8 THEN (c \div Pow2(8 * (i - 5))) % Pow2(8) ELSE 0]

\* answer[4] | answer[5]<<8 | answer[6]<<16 | answer[7]<<24
\* (the bytes do not overlap, so the or is a sum below 2^32)
DecodeClk(answer) ==
    Byte(answer, 4) + Byte(answer, 5) * Pow2(8) + Byte(answer, 6) * Pow2(16)
    + Byte(answer, 7) * Pow2(24)

\* variant: the ladder compares with < instead of <=
PrescalerValue_strict(ratio) ==
    IF ratio < 2 THEN 2
    ELSE IF ratio < 4 THEN 4
    ELSE IF ratio < 8 THEN 8
    ELSE IF ratio < 16 THEN 16
    ELSE IF ratio < 32 THEN 32
    ELSE IF ratio < 64 THEN 64
    ELSE IF ratio < 128 THEN 128
    ELSE 256

\* the if/else ladder of stlinkv3_spi_calc_prescaler
PrescalerValue(ratio) ==
    IF ratio <= 2 THEN 2
    ELSE IF ratio <= 4 THEN 4
    ELSE IF ratio <= 8 THEN 8
    ELSE IF ratio <= 16 THEN 16
    ELSE IF ratio <= 32 THEN 32
    ELSE IF ratio <= 64 THEN 64
    ELSE IF ratio <= 128 THEN 128
    ELSE IF ratio <= 256 THEN 256
    ELSE 256

\* variant: the codes are counted from 1
PrescalerCode_fromOne(ratio) ==
    IF ratio <= 2 THEN 1
    ELSE IF ratio <= 4 THEN 2
    ELSE IF ratio <= 8 THEN 3
    ELSE IF ratio <= 16 THEN 4
    ELSE IF ratio <= 32 THEN 5
    ELSE IF ratio <= 64 THEN 6
    ELSE IF ratio <= 128 THEN 7
    ELSE 8

\* SPI_prescaler_t code stored with each divisor
PrescalerCode(ratio) ==
    IF ratio <= 2 THEN 0
    ELSE IF ratio <= 4 THEN 1
    ELSE IF ratio <= 8 THEN 2
    ELSE IF ratio <= 16 THEN 3
    ELSE IF ratio <= 32 THEN 4
    ELSE IF ratio <= 64 THEN 5
    ELSE IF ratio <= 128 THEN 6
    ELSE IF ratio <= 256 THEN 7
    ELSE 7

\* *calculated_freq_in_kHz = bridge_clk_in_kHz / prescaler_value, stored in
\* a uint16_t
CalculatedFreq(clk, value) == U16(clk \div value)

\* quotients a division by zero may leave behind when it does not trap
UBRatios == {0, 257}

\* lines 181-213 with the quotient ratio
ApplyPrescaler(clk, ratio) ==
    /\ bridge_clk_in_kHz' = clk
    /\ calculated_prescaler' = ratio
    /\ prescaler' = PrescalerCode(ratio)
    /\ prescaler_value' = PrescalerValue(ratio)
    /\ SCK_freq_in_kHz' = CalculatedFreq(clk, PrescalerValue(ratio))
    /\ pc' = "init_spi_cmd"
    /\ UNCHANGED <<usb_ctx, exit_count, init_rc, open_rc>>

\* stlinkv3_spi_calc_prescaler with its call of stlinkv3_get_clk; the
\* division by a requested frequency of 0 is undefined: it traps, or it
\* leaves some quotient
OpenCalcPrescaler ==
    /\ pc = "calc_prescaler"
    /\ \E o1 \in Outcomes(CommandLen), o2 \in Outcomes(AnswerLen12), c \in Clks :
         LET clk == DecodeClk(ClkAnswer(c))
         IN  /\ xfers' = xfers \o ExchangeXfers(GetClkFrame, AnswerLen12, o1, o2, clk)
             /\ IF ~ExchangeOk(o1, o2, AnswerLen12)
                THEN /\ OpenFails
                     /\ UNCHANGED calcVars
                ELSE IF sck_freq_kHz = 0
                THEN \/ /\ pc' = "crashed"
                        /\ bridge_clk_in_kHz' = clk
                        /\ UNCHANGED <<calculated_prescaler, prescaler, prescaler_value,
                                       SCK_freq_in_kHz, usb_ctx, exit_count, init_rc,
                                       open_rc>>
                     \/ \E r \in UBRatios : ApplyPrescaler(clk, r)
                ELSE ApplyPrescaler(clk, clk \div sck_freq_kHz)
    /\ UNCHANGED <<stlinkv3_handle, close_count, speed_str, sck_freq_kHz,
                   shutdown_registered, master_registered, fw_version, fw_check_result,
                   txVars, shutdown_rc>>

\* command[0..6] of the STLINK_BRIDGE_INIT_SPI frame
InitSpiFrame(code) ==
    [ZeroFrame EXCEPT
        ![1] = STLINK_BRIDGE_COMMAND,
        ![2] = STLINK_BRIDGE_INIT_SPI,
        ![3] = SPI_DIRECTION_2LINES_FULLDUPLEX,
        ![4] = SPI_MODE_MASTER + SPI_CPHA_1EDGE * 2 + SPI_CPOL_LOW * 4
               + SPI_FIRSTBIT_MSB * 8,
        ![5] = SPI_DATASIZE_8B,
        ![6] = SPI_NSS_SOFT,
        ![7] = U8(code)]

\* the test after the init command: rc != COMPLETED && actualLength != sizeof
InitCmdFailed(o) == o.rc # "COMPLETED" /\ o.actual # CommandLen

OpenInitSpiCmd ==
    /\ pc = "init_spi_cmd"
    /\ \E o \in Outcomes(CommandLen) :
         /\ xfers' = Append(xfers, CommandXfer(InitSpiFrame(prescaler), o))
         /\ IF InitCmdFailed(o)
            THEN OpenFails
            ELSE /\ pc' = "init_spi_ans"
                 /\ UNCHANGED <<usb_ctx, exit_count, init_rc, open_rc>>
    /\ UNCHANGED <<stlinkv3_handle, close_count, speed_str, sck_freq_kHz,
                   shutdown_registered, master_registered, fw_version, fw_check_result,
                   calcVars, txVars, shutdown_rc>>

OpenInitSpiAnswer ==
    /\ pc = "init_spi_ans"
    /\ \E o \in Outcomes(AnswerLen2) :
         /\ xfers' = Append(xfers, AnswerXfer(AnswerLen2, o, 0))
         /\ IF ~TransferOk(o, AnswerLen2)
            THEN OpenFails
            ELSE /\ open_rc' = 0
                 /\ pc' = "register_shutdown"
                 /\ UNCHANGED <<usb_ctx, exit_count, init_rc>>
    /\ UNCHANGED <<stlinkv3_handle, close_count, speed_str, sck_freq_kHz,
                   shutdown_registered, master_registered, fw_version, fw_check_result,
                   calcVars, txVars, shutdown_rc>>

(***************************************************************************)
(* The rest of stlinkv3_spi_init.                                          *)
(***************************************************************************)
\* if (register_shutdown(stlinkv3_spi_shutdown, NULL)) goto err_exit
RegisterShutdown ==
    /\ pc = "register_shutdown"
    /\ \E ok \in BOOLEAN :
         IF ok
         THEN /\ shutdown_registered' = TRUE
              /\ pc' = "register_master"
              /\ UNCHANGED <<usb_ctx, exit_count, init_rc>>
         ELSE /\ InitErrExit
              /\ UNCHANGED shutdown_registered
    /\ UNCHANGED <<stlinkv3_handle, close_count, speed_str, sck_freq_kHz,
                   master_registered, openVars, txVars, shutdown_rc, xfers>>

\* if (register_spi_master(&spi_programmer_stlinkv3)) goto err_exit; return 0
RegisterSpiMaster ==
    /\ pc = "register_master"
    /\ \E ok \in BOOLEAN :
         IF ok
         THEN /\ master_registered' = TRUE
              /\ init_rc' = 0
              /\ pc' = "init_done"
              /\ UNCHANGED <<usb_ctx, exit_count>>
         ELSE /\ InitErrExit
              /\ UNCHANGED master_registered
    /\ UNCHANGED <<stlinkv3_handle, close_count, speed_str, sck_freq_kHz,
                   shutdown_registered, openVars, txVars, shutdown_rc, xfers>>

(***************************************************************************)
(* The helpers of stlinkv3_spi_transmit.                                   *)
(***************************************************************************)
\* command frame of stlinkv3_spi_set_SPI_NSS
NssFrame(level) ==
    SetByte(SetByte(SetByte(ZeroFrame, 0, STLINK_BRIDGE_COMMAND),
                    1, STLINK_BRIDGE_CS_SPI), 2, U8(level))

\* command frame of stlinkv3_get_last_readwrite_status
StatusFrame ==
    SetByte(SetByte(ZeroFrame, 0, STLINK_BRIDGE_COMMAND),
            1, STLINK_BRIDGE_GET_RWCMD_STATUS)

\* *status = answer[2] | answer[3] << 16 of the uint16_t answer[4]
DecodeStatus(a2, a3) == a2 + a3 * Pow2(16)

\* write_arr[i] of the caller's buffer
WriteArr(seed, i) == (seed + i) % Pow2(8)

\* command[0..3] and the loop that copies at most 8 bytes of write_arr
WriteFrame(cnt, seed) ==
    [i \in 1..CommandLen |->
        IF i = 1 THEN STLINK_BRIDGE_COMMAND
        ELSE IF i = 2 THEN STLINK_BRIDGE_WRITE_SPI
        ELSE IF i = 3 THEN U8(cnt)
        ELSE IF i = 4 THEN U8(cnt \div Pow2(8))
        ELSE IF i - 5 < InlineBytes /\ i - 5 < cnt THEN WriteArr(seed, i - 5)
        ELSE 0]

\* variant: the test is write_cnt >= 8
HasContinuation_ge(cnt) == cnt >= InlineBytes

\* if (write_cnt > 8)
HasContinuation(cnt) == cnt > InlineBytes

\* the second transfer sends &write_arr[8], write_cnt - 8 bytes
ContinuationXfer(cnt, o) ==
    DataXfer(STLINK_EP_OUT, "write_arr", InlineBytes, cnt - InlineBytes, o)

\* the frame of the write is reused: command[1..3] are overwritten
ReadFrame(frame, cnt) ==
    SetByte(SetByte(SetByte(frame, 1, STLINK_BRIDGE_READ_SPI), 2, U8(cnt)),
            3, U8(cnt \div Pow2(8)))

(***************************************************************************)
(* stlinkv3_spi_transmit, the command callback of the registered master.   *)
(***************************************************************************)
\* the SPI layer calls the callback of a registered master
TransmitCall ==
    /\ \/ pc = "init_done" /\ init_rc = 0 /\ master_registered
       \/ pc = "tx_done"
    /\ usb_ctx = "live"
    /\ \E w \in WriteCnts, seed \in WriteSeeds, r \in ReadCnts :
         /\ write_cnt' = w
         /\ write_seed' = seed
         /\ read_cnt' = r
    /\ command' = ZeroFrame
    /\ rw_status' = 0
    /\ tx_rc' = 0
    /\ xfers' = <<>>
    /\ pc' = "tx_nss_low"
    /\ InitLocalsGone
    /\ UNCHANGED <<resVars, init_rc, shutdown_registered, master_registered,
                   shutdown_rc>>

\* variant: a failure to set the pin low leaves through transmit_err
TxAssertCS_unwind ==
    /\ pc = "tx_nss_low"
    /\ \E o1 \in Outcomes(CommandLen), o2 \in Outcomes(AnswerLen2) :
         /\ xfers' = xfers \o ExchangeXfers(NssFrame(SPI_NSS_LOW), AnswerLen2, o1, o2, 0)
         /\ pc' = IF ExchangeOk(o1, o2, AnswerLen2) THEN "tx_write_hdr" ELSE "tx_err"
    /\ UNCHANGED <<resVars, initVars, openVars, txVars, shutdown_rc>>

\* if (stlinkv3_spi_set_SPI_NSS(SPI_NSS_LOW)) return -1
TxAssertCS ==
    /\ pc = "tx_nss_low"
    /\ \E o1 \in Outcomes(CommandLen), o2 \in Outcomes(AnswerLen2) :
         /\ xfers' = xfers \o ExchangeXfers(NssFrame(SPI_NSS_LOW), AnswerLen2, o1, o2, 0)
         /\ IF ExchangeOk(o1, o2, AnswerLen2)
            THEN /\ pc' = "tx_write_hdr"
                 /\ UNCHANGED tx_rc
            ELSE /\ tx_rc' = -1
                 /\ pc' = "tx_done"
    /\ UNCHANGED <<resVars, initVars, openVars, write_cnt, write_seed, read_cnt,
                   command, rw_status, shutdown_rc>>

\* the write command frame with the first bytes of the payload
TxWriteHeader ==
    /\ pc = "tx_write_hdr"
    /\ command' = WriteFrame(write_cnt, write_seed)
    /\ \E o \in Outcomes(CommandLen) :
         /\ xfers' = Append(xfers, CommandXfer(command', o))
         /\ pc' = IF ~TransferOk(o, CommandLen) THEN "tx_err"
                  ELSE IF HasContinuation(write_cnt) THEN "tx_write_cont"
                  ELSE "tx_status1"
    /\ UNCHANGED <<resVars, initVars, openVars, write_cnt, write_seed, read_cnt,
                   rw_status, tx_rc, shutdown_rc>>

\* the rest of the payload as a transfer of its own
TxWriteContinuation ==
    /\ pc = "tx_write_cont"
    /\ \E o \in Outcomes(write_cnt - InlineBytes) :
         /\ xfers' = Append(xfers, ContinuationXfer(write_cnt, o))
         /\ pc' = IF TransferOk(o, write_cnt - InlineBytes) THEN "tx_status1"
                  ELSE "tx_err"
    /\ UNCHANGED <<resVars, initVars, openVars, txVars, shutdown_rc>>

\* variant: the status after the write is fetched but not tested
TxStatusAfterWrite_unchecked ==
    /\ pc = "tx_status1"
    /\ \E o1 \in Outcomes(CommandLen), o2 \in Outcomes(AnswerLen8),
          a2 \in StatusHalves, a3 \in StatusHalves :
         LET status == DecodeStatus(a2, a3)
         IN  /\ xfers' = xfers \o ExchangeXfers(StatusFrame, AnswerLen8, o1, o2, status)
             /\ IF ~ExchangeOk(o1, o2, AnswerLen8)
                THEN /\ tx_rc' = -1
                     /\ pc' = "tx_done"
                     /\ UNCHANGED rw_status
                ELSE /\ rw_status' = status
                     /\ pc' = IF read_cnt # 0 THEN "tx_read_cmd" ELSE "tx_status2"
                     /\ UNCHANGED tx_rc
    /\ UNCHANGED <<resVars, initVars, openVars, write_cnt, write_seed, read_cnt,
                   command, shutdown_rc>>

\* variant: without a read the second status query is left out
TxStatusAfterWrite_onePoll ==
    /\ pc = "tx_status1"
    /\ \E o1 \in Outcomes(CommandLen), o2 \in Outcomes(AnswerLen8),
          a2 \in StatusHalves, a3 \in StatusHalves :
         LET status == DecodeStatus(a2, a3)
         IN  /\ xfers' = xfers \o ExchangeXfers(StatusFrame, AnswerLen8, o1, o2, status)
             /\ IF ~ExchangeOk(o1, o2, AnswerLen8)
                THEN /\ tx_rc' = -1
                     /\ pc' = "tx_done"
                     /\ UNCHANGED rw_status
                ELSE /\ rw_status' = status
                     /\ pc' = IF status # 0 THEN "tx_err"
                              ELSE IF read_cnt # 0 THEN "tx_read_cmd"
                              ELSE "tx_nss_high"
                     /\ UNCHANGED tx_rc
    /\ UNCHANGED <<resVars, initVars, openVars, write_cnt, write_seed, read_cnt,
                   command, shutdown_rc>>

\* if (stlinkv3_get_last_readwrite_status(&rw_status)) return -1;
\* if (rw_status != 0) goto transmit_err
TxStatusAfterWrite ==
    /\ pc = "tx_status1"
    /\ \E o1 \in Outcomes(CommandLen), o2 \in Outcomes(AnswerLen8),
          a2 \in StatusHalves, a3 \in StatusHalves :
         LET status == DecodeStatus(a2, a3)
         IN  /\ xfers' = xfers \o ExchangeXfers(StatusFrame, AnswerLen8, o1, o2, status)
             /\ IF ~ExchangeOk(o1, o2, AnswerLen8)
                THEN /\ tx_rc' = -1
                     /\ pc' = "tx_done"
                     /\ UNCHANGED rw_status
                ELSE /\ rw_status' = status
                     /\ pc' = IF status # 0 THEN "tx_err"
                              ELSE IF read_cnt # 0 THEN "tx_read_cmd"
                              ELSE "tx_status2"
                     /\ UNCHANGED tx_rc
    /\ UNCHANGED <<resVars, initVars, openVars, write_cnt, write_seed, read_cnt,
                   command, shutdown_rc>>

\* if (read_cnt): the read command frame
TxReadCmd ==
    /\ pc = "tx_read_cmd"
    /\ command' = ReadFrame(command, read_cnt)
    /\ \E o \in Outcomes(CommandLen) :
         /\ xfers' = Append(xfers, CommandXfer(command', o))
         /\ pc' = IF TransferOk(o, CommandLen) THEN "tx_read_data" ELSE "tx_err"
    /\ UNCHANGED <<resVars, initVars, openVars, write_cnt, write_seed, read_cnt,
                   rw_status, tx_rc, shutdown_rc>>

\* read_cnt bytes into read_arr
TxReadData ==
    /\ pc = "tx_read_data"
    /\ \E o \in Outcomes(read_cnt) :
         /\ xfers' = Append(xfers, DataXfer(STLINK_EP_IN, "read_arr", 0, read_cnt, o))
         /\ pc' = IF TransferOk(o, read_cnt) THEN "tx_status2" ELSE "tx_err"
    /\ UNCHANGED <<resVars, initVars, openVars, txVars, shutdown_rc>>

\* variant: the status after the read is fetched but not tested
TxStatusAfterRead_unchecked ==
    /\ pc = "tx_status2"
    /\ \E o1 \in Outcomes(CommandLen), o2 \in Outcomes(AnswerLen8),
          a2 \in StatusHalves, a3 \in StatusHalves :
         LET status == DecodeStatus(a2, a3)
         IN  /\ xfers' = xfers \o ExchangeXfers(StatusFrame, AnswerLen8, o1, o2, status)
             /\ IF ~ExchangeOk(o1, o2, AnswerLen8)
                THEN /\ pc' = "tx_err"
                     /\ UNCHANGED rw_status
                ELSE /\ rw_status' = status
                     /\ pc' = "tx_nss_high"
    /\ UNCHANGED <<resVars, initVars, openVars, write_cnt, write_seed, read_cnt,
                   command, tx_rc, shutdown_rc>>

\* if (stlinkv3_get_last_readwrite_status(&rw_status)) goto transmit_err;
\* if (rw_status != 0) goto transmit_err
TxStatusAfterRead ==
    /\ pc = "tx_status2"
    /\ \E o1 \in Outcomes(CommandLen), o2 \in Outcomes(AnswerLen8),
          a2 \in StatusHalves, a3 \in StatusHalves :
         LET status == DecodeStatus(a2, a3)
         IN  /\ xfers' = xfers \o ExchangeXfers(StatusFrame, AnswerLen8, o1, o2, status)
             /\ IF ~ExchangeOk(o1, o2, AnswerLen8)
                THEN /\ pc' = "tx_err"
                     /\ UNCHANGED rw_status
                ELSE /\ rw_status' = status
                     /\ pc' = IF status # 0 THEN "tx_err" ELSE "tx_nss_high"
    /\ UNCHANGED <<resVars, initVars, openVars, write_cnt, write_seed, read_cnt,
                   command, tx_rc, shutdown_rc>>

\* if (stlinkv3_spi_set_SPI_NSS(SPI_NSS_HIGH)) return -1; return 0
TxDeassertCS ==
    /\ pc = "tx_nss_high"
    /\ \E o1 \in Outcomes(CommandLen), o2 \in Outcomes(AnswerLen2) :
         /\ xfers' = xfers \o ExchangeXfers(NssFrame(SPI_NSS_HIGH), AnswerLen2, o1, o2, 0)
         /\ tx_rc' = IF ExchangeOk(o1, o2, AnswerLen2) THEN 0 ELSE -1
    /\ pc' = "tx_done"
    /\ UNCHANGED <<resVars, initVars, openVars, write_cnt, write_seed, read_cnt,
                   command, rw_status, shutdown_rc>>

\* transmit_err: the NSS pin is set high, a failure is only reported;
\* return -1
TxUnwind ==
    /\ pc = "tx_err"
    /\ \E o1 \in Outcomes(CommandLen), o2 \in Outcomes(AnswerLen2) :
         xfers' = xfers \o ExchangeXfers(NssFrame(SPI_NSS_HIGH), AnswerLen2, o1, o2, 0)
    /\ tx_rc' = -1
    /\ pc' = "tx_done"
    /\ UNCHANGED <<resVars, initVars, openVars, write_cnt, write_seed, read_cnt,
                   command, rw_status, shutdown_rc>>

(***************************************************************************)
(* stlinkv3_spi_shutdown, run once by the shutdown machinery when it was   *)
(* registered.  After init has left through err_exit the context is gone   *)
(* already: using the handle then is undefined and may trap.               *)
(***************************************************************************)
CloseFrame ==
    SetByte(SetByte(SetByte(ZeroFrame, 0, STLINK_BRIDGE_COMMAND),
                    1, STLINK_BRIDGE_CLOSE), 2, STLINK_SPI_COM)

\* the close command; its failure is only reported
ShutdownCmd ==
    /\ pc \in {"init_done", "tx_done"}
    /\ shutdown_registered
    /\ \/ \E o \in Outcomes(CommandLen) :
            /\ xfers' = <<CommandXfer(CloseFrame, o)>>
            /\ pc' = "shutdown_ans"
       \/ /\ usb_ctx = "exited"
          /\ pc' = "crashed"
          /\ UNCHANGED xfers
    /\ InitLocalsGone
    /\ TxLocalsGone
    /\ UNCHANGED <<resVars, init_rc, shutdown_registered, master_registered,
                   shutdown_rc>>

\* variant: a failing answer returns -1 at once, as in the other functions
ShutdownAnswer_earlyReturn ==
    /\ pc = "shutdown_ans"
    /\ \E o \in Outcomes(AnswerLen2) :
         /\ xfers' = Append(xfers, AnswerXfer(AnswerLen2, o, 0))
         /\ IF TransferOk(o, AnswerLen2)
            THEN /\ pc' = "shutdown_release"
                 /\ UNCHANGED shutdown_rc
            ELSE /\ pc' = "exited"
                 /\ shutdown_rc' = -1
    /\ UNCHANGED <<resVars, initVars, openVars, txVars>>

\* the answer of the close command; its failure is only reported
ShutdownAnswer ==
    /\ pc = "shutdown_ans"
    /\ \/ \E o \in Outcomes(AnswerLen2) :
            /\ xfers' = Append(xfers, AnswerXfer(AnswerLen2, o, 0))
            /\ pc' = "shutdown_release"
       \/ /\ usb_ctx = "exited"
          /\ pc' = "crashed"
          /\ UNCHANGED xfers
    /\ UNCHANGED <<resVars, initVars, openVars, txVars, shutdown_rc>>

\* libusb_close(stlinkv3_handle); libusb_exit(usb_ctx); return 0
ShutdownRelease ==
    /\ pc = "shutdown_release"
    /\ \/ /\ stlinkv3_handle' = "closed"
          /\ close_count' = close_count + 1
          /\ usb_ctx' = "exited"
          /\ exit_count' = exit_count + 1
          /\ shutdown_rc' = 0
          /\ pc' = "exited"
       \/ /\ usb_ctx = "exited"
          /\ pc' = "crashed"
          /\ UNCHANGED <<resVars, shutdown_rc>>
    /\ UNCHANGED <<initVars, openVars, txVars, xfers>>

Next ==
    \/ LibusbInit
    \/ FindDevice
    \/ ParseSpeed
    \/ OpenCheckVersion
    \/ OpenCalcPrescaler
    \/ OpenInitSpiCmd
    \/ OpenInitSpiAnswer
    \/ RegisterShutdown
    \/ RegisterSpiMaster
    \/ TransmitCall
    \/ TxAssertCS
    \/ TxWriteHeader
    \/ TxWriteContinuation
    \/ TxStatusAfterWrite
    \/ TxReadCmd
    \/ TxReadData
    \/ TxStatusAfterRead
    \/ TxDeassertCS
    \/ TxUnwind
    \/ ShutdownCmd
    \/ ShutdownAnswer
    \/ ShutdownRelease

Spec == Init /\ [][Next]_vars

TypeOK ==
    /\ pc \in {"init", "find_dev", "parse_speed", "check_version", "calc_prescaler",
               "init_spi_cmd", "init_spi_ans", "register_shutdown", "register_master",
               "init_done", "tx_nss_low", "tx_write_hdr", "tx_write_cont", "tx_status1",
               "tx_read_cmd", "tx_read_data", "tx_status2", "tx_nss_high", "tx_err",
               "tx_done", "shutdown_ans", "shutdown_release", "exited", "crashed"}
    /\ usb_ctx \in {"null", "live", "exited"}
    /\ stlinkv3_handle \in {"null", "open", "closed"}
    /\ sck_freq_kHz \in 0..(Pow2(16) - 1)
    /\ SCK_freq_in_kHz \in 0..(Pow2(16) - 1)
    /\ bridge_clk_in_kHz >= 0
    /\ prescaler \in 0..7
    /\ \A i \in 1..CommandLen : command[i] \in 0..255
    /\ init_rc \in {-1, 0, 1}
    /\ tx_rc \in {-1, 0}

(***************************************************************************)
(* Vocabulary of the properties.                                           *)
(***************************************************************************)
XferSucceeded(x) == x.rc = "COMPLETED" /\ x.actual = x.len

\* x is a bridge command frame with sub-command sub
IsBridgeCmd(x, sub) ==
    /\ x.tag = "command"
    /\ Byte(x.frame, 0) = STLINK_BRIDGE_COMMAND
    /\ Byte(x.frame, 1) = sub

IsNss(x, level) == IsBridgeCmd(x, STLINK_BRIDGE_CS_SPI) /\ Byte(x.frame, 2) = level

TxPcs == {"tx_nss_low", "tx_write_hdr", "tx_write_cont", "tx_status1", "tx_read_cmd",
          "tx_read_data", "tx_status2", "tx_nss_high", "tx_err", "tx_done"}

\* the chip-select-Low command of the running transmit and its answer succeeded
CsLowSucceeded ==
    /\ Len(xfers) >= 2
    /\ IsNss(xfers[1], SPI_NSS_LOW) /\ XferSucceeded(xfers[1])
    /\ xfers[2].tag = "answer" /\ XferSucceeded(xfers[2])

CsHighIssued == \E i \in 1..Len(xfers) : IsNss(xfers[i], SPI_NSS_HIGH)

\* the last two transfers are a chip-select-High command and its answer, both
\* successful
FinalCsHighSucceeded ==
    /\ Len(xfers) >= 2
    /\ IsNss(xfers[Len(xfers) - 1], SPI_NSS_HIGH) /\ XferSucceeded(xfers[Len(xfers) - 1])
    /\ xfers[Len(xfers)].tag = "answer" /\ XferSucceeded(xfers[Len(xfers)])

\* positions of the answers of the status polls that were answered
PollAnswers ==
    {i \in 2..Len(xfers) :
        /\ IsBridgeCmd(xfers[i - 1], STLINK_BRIDGE_GET_RWCMD_STATUS)
        /\ xfers[i].tag = "answer"
        /\ XferSucceeded(xfers[i])}
BothPollsZero ==
    /\ Cardinality(PollAnswers) = 2
    /\ \A i \in PollAnswers : xfers[i].val = 0
SomePollNonzero == \E i \in PollAnswers : xfers[i].val # 0

(***************************************************************************)
(* C1: when transmit has returned and its chip-select-Low command had      *)
(* succeeded, a chip-select-High command was issued during the call,       *)
(* whichever later step failed.                                            *)
(***************************************************************************)
C1_CsHighBeforeReturn ==
    (pc = "tx_done" /\ CsLowSucceeded) => CsHighIssued

(***************************************************************************)
(* C2, as claimed: transmit returns success exactly when both status polls *)
(* were answered with zero, also when the final chip-select-High fails,    *)
(* and returns failure when a poll reports a nonzero status.               *)
(***************************************************************************)
C2_SuccessIffBothPollsZero ==
    pc = "tx_done" =>
        /\ (tx_rc = 0) <=> BothPollsZero
        /\ SomePollNonzero => tx_rc = -1

(***************************************************************************)
(* C2, amended: transmit returns success exactly when both status polls    *)
(* were answered with zero and the final chip-select-High command and its  *)
(* acknowledgement succeeded; it returns failure when a poll reports a     *)
(* nonzero status.                                                         *)
(***************************************************************************)
C2_SuccessIffPollsZeroAndCsHigh ==
    pc = "tx_done" =>
        /\ (tx_rc = 0) <=> (BothPollsZero /\ FinalCsHighSucceeded)
        /\ SomePollNonzero => tx_rc = -1

\* both polls answered zero, the final chip-select-High failed, and the call
\* returned failure
C2_Witness ==
    /\ pc = "tx_done"
    /\ BothPollsZero
    /\ CsHighIssued
    /\ ~FinalCsHighSucceeded
    /\ tx_rc = -1

(***************************************************************************)
(* The prescaler computation has run for a nonzero requested frequency.    *)
(***************************************************************************)
CalcDone == prescaler_value # 0 /\ sck_freq_kHz > 0
Ratio == bridge_clk_in_kHz \div sck_freq_kHz
Divisors == {2, 4, 8, 16, 32, 64, 128, 256}

(***************************************************************************)
(* C3: for a requested frequency f > 0 and a bridge clock c with           *)
(* c / f <= 256, the resulting SPI clock does not exceed f.                *)
(***************************************************************************)
C3_ResultNotAboveRequest ==
    (CalcDone /\ Ratio <= 256) => SCK_freq_in_kHz <= sck_freq_kHz

(***************************************************************************)
(* C4: the divisor chosen for f > 0 is the smallest of 2, 4, ..., 256 that *)
(* is >= c / f, and 256 when c / f > 256; a ratio of 0 or 1 selects 2;     *)
(* c = 48000 gives 64 for f = 1000 and 2 for f = 24000.                    *)
(***************************************************************************)
C4_SmallestDivisor ==
    CalcDone =>
        /\ prescaler_value \in Divisors
        /\ Ratio <= 256 =>
              /\ prescaler_value >= Ratio
              /\ \A d \in Divisors : d >= Ratio => prescaler_value <= d
        /\ Ratio > 256 => prescaler_value = 256
        /\ Ratio \in {0, 1} => prescaler_value = 2
        /\ (bridge_clk_in_kHz = 48000 /\ sck_freq_kHz = 1000) => prescaler_value = 64
        /\ (bridge_clk_in_kHz = 48000 /\ sck_freq_kHz = 24000) => prescaler_value = 2

\* the first example of the claim has been computed
C4_Witness ==
    /\ CalcDone
    /\ bridge_clk_in_kHz = 48000
    /\ sck_freq_kHz = 1000
    /\ Ratio = 48
    /\ prescaler_value = 64

(***************************************************************************)
(* C5: the resulting clock returned by the prescaler computation equals    *)
(* c / d exactly, for every bridge clock c and chosen divisor d.           *)
(***************************************************************************)
C5_ResultIsExactQuotient ==
    CalcDone => SCK_freq_in_kHz = bridge_clk_in_kHz \div prescaler_value

(***************************************************************************)
(* C6: open has failed whenever one of its bulk transfers reported a       *)
(* completion status other than complete or a byte count other than the    *)
(* expected one (for requested frequencies f > 0).                         *)
(***************************************************************************)
InitPcs == {"init", "find_dev", "parse_speed", "check_version", "calc_prescaler",
            "init_spi_cmd", "init_spi_ans", "register_shutdown", "register_master",
            "init_done"}
\* stlinkv3_spi_open was called and has returned
OpenReturned ==
    /\ pc \in {"register_shutdown", "register_master", "init_done"}
    /\ xfers # <<>>
C6_OpenFailsOnAnyTransferFailure ==
    (OpenReturned /\ sck_freq_kHz > 0 /\ \E i \in 1..Len(xfers) : ~XferSucceeded(xfers[i])) => open_rc = -1

(***************************************************************************)
(* C7: with a version byte >= 3 and every later transfer successful, open  *)
(* succeeds; with a version byte < 3 open fails and neither the clock      *)
(* query nor the SPI-init command is ever sent.                            *)
(***************************************************************************)
VersionAnswered == pc \in InitPcs /\ fw_check_result # Unset
C7_VersionGate ==
    /\ (OpenReturned /\ VersionAnswered /\ fw_version >= 3
          /\ \A i \in 1..Len(xfers) : XferSucceeded(xfers[i]))
       => open_rc = 0
    /\ (VersionAnswered /\ fw_version < 3)
       => /\ pc = "init_done"
          /\ open_rc = -1
          /\ init_rc = 1
          /\ \A i \in 1..Len(xfers) :
                /\ ~IsBridgeCmd(xfers[i], STLINK_BRIDGE_GET_CLOCK)
                /\ ~IsBridgeCmd(xfers[i], STLINK_BRIDGE_INIT_SPI)

\* the bridge answered version 2 and open failed after the version exchange
C7_Witness ==
    /\ VersionAnswered
    /\ fw_version = 2
    /\ pc = "init_done"
    /\ open_rc = -1
    /\ Len(xfers) = 2

(***************************************************************************)
(* C8: a transmit of n bytes sends one write command frame, whose length   *)
(* field is n (low byte, high byte) and whose payload is bytes [0, min(n,  *)
(* 8)) padded with zeros, and never a second one; a continuation transfer  *)
(* is sent only for n > 8, directly after the frame, it carries the n - 8  *)
(* bytes from offset 8, and it is sent for every n > 8 whose frame went    *)
(* out; the announced length is the number of bytes of the frame's payload *)
(* plus those of the continuation.                                         *)
(***************************************************************************)
WriteFramePos ==
    {i \in 1..Len(xfers) : IsBridgeCmd(xfers[i], STLINK_BRIDGE_WRITE_SPI)}
ContinuationPos == {i \in 1..Len(xfers) : xfers[i].tag = "write_arr"}
InlineCount == IF write_cnt < 8 THEN write_cnt ELSE 8
C8_WriteFraming ==
    pc \in TxPcs =>
        /\ Cardinality(WriteFramePos) <= 1
        /\ (pc \notin {"tx_nss_low", "tx_write_hdr"} /\ CsLowSucceeded)
              => WriteFramePos = {3}
        /\ \A i \in WriteFramePos :
              LET f == xfers[i].frame
              IN  /\ xfers[i].len = 16
                  /\ Byte(f, 2) + 256 * Byte(f, 3) = write_cnt
                  /\ Byte(f, 2) < 256 /\ Byte(f, 3) < 256
                  /\ \A k \in 0..11 :
                        Byte(f, 4 + k) = IF k < InlineCount
                                         THEN WriteArr(write_seed, k) ELSE 0
        /\ Cardinality(ContinuationPos) <= 1
        /\ \A i \in ContinuationPos :
              /\ write_cnt > 8
              /\ i - 1 \in WriteFramePos
              /\ xfers[i].ep = STLINK_EP_OUT
              /\ xfers[i].off = 8
              /\ xfers[i].len = write_cnt - 8
              /\ InlineCount + xfers[i].len = write_cnt
        /\ (write_cnt > 8 /\ pc \notin {"tx_nss_low", "tx_write_hdr", "tx_write_cont"}
              /\ \E i \in WriteFramePos : XferSucceeded(xfers[i]))
              => ContinuationPos # {}
        /\ write_cnt <= 8 => (ContinuationPos = {} /\ InlineCount = write_cnt)

\* the example of the specification: 10 bytes, 2 of them in the continuation
C8_Witness ==
    /\ pc = "tx_done"
    /\ tx_rc = 0
    /\ write_cnt = 10
    /\ WriteFramePos = {3}
    /\ ContinuationPos = {4}
    /\ xfers[4].len = 2
    /\ Byte(xfers[3].frame, 2) = 10

(***************************************************************************)
(* C9: when shutdown has returned, it has returned success, the handle was *)
(* released exactly once, and the close command and (whatever its outcome) *)
(* the read of its acknowledgement were both attempted before; the handle  *)
(* is not released at any earlier point.                                   *)
(***************************************************************************)
C9_ShutdownReleases ==
    /\ pc = "exited" =>
          /\ shutdown_rc = 0
          /\ stlinkv3_handle = "closed"
          /\ close_count = 1
          /\ Len(xfers) = 2
          /\ IsBridgeCmd(xfers[1], STLINK_BRIDGE_CLOSE)
          /\ xfers[2].tag = "answer" /\ xfers[2].len = 2
    /\ pc # "exited" => (close_count = 0 /\ stlinkv3_handle # "closed")
    /\ close_count <= 1

\* shutdown returned success although both of its transfers failed
C9_Witness ==
    /\ pc = "exited"
    /\ ~XferSucceeded(xfers[1])
    /\ ~XferSucceeded(xfers[2])
    /\ stlinkv3_handle = "closed"
    /\ shutdown_rc = 0

(***************************************************************************)
(* C10: when the spispeed parameter is not a number (a decimal numeral, an *)
(* octal numeral with a leading 0 or a hexadecimal numeral after 0x), init *)
(* has failed without any bulk transfer.                                   *)
(***************************************************************************)
AllDigits(s, from, base) == \A i \in from..Len(s) : IsDigit(s[i], base)
IsNumeral(s) ==
    \/ Len(s) >= 1 /\ s[1] # "0" /\ AllDigits(s, 1, 10)
    \/ Len(s) >= 1 /\ s[1] = "0" /\ AllDigits(s, 2, 8)
    \/ Len(s) >= 3 /\ s[1] = "0" /\ s[2] = "x" /\ AllDigits(s, 3, 16)
Malformed(s) == s # <<"NULL">> /\ s # <<>> /\ ~IsNumeral(s)
NonzeroPolls == {i \in PollAnswers : xfers[i].val # 0}
C11_NonzeroStatusAborts ==
    pc \in TxPcs =>
        \A i \in NonzeroPolls :
            /\ pc \in {"tx_err", "tx_done"}
            /\ \A j \in (i + 1)..Len(xfers) :
                  \/ IsNss(xfers[j], SPI_NSS_HIGH)
                  \/ /\ xfers[j].tag = "answer"
                     /\ j = i + 2
            /\ Len(xfers) <= i + 2
            /\ pc = "tx_done" =>
                  /\ tx_rc = -1
                  /\ Len(xfers) > i /\ IsNss(xfers[i + 1], SPI_NSS_HIGH)

\* the status after the write was nonzero although a read was asked for: the
\* call returned failure without a read command
C11_Witness ==
    /\ pc = "tx_done"
    /\ read_cnt > 0
    /\ NonzeroPolls # {}
    /\ Cardinality(PollAnswers) = 1
    /\ \A j \in 1..Len(xfers) : ~IsBridgeCmd(xfers[j], STLINK_BRIDGE_READ_SPI)
    /\ CsHighIssued
    /\ tx_rc = -1

(***************************************************************************)
(* C12: when transmit has returned after a failing step that followed a    *)
(* successful chip-select Low, exactly one chip-select-High command was    *)
(* issued and the call returned failure; and in any call the write frame,  *)
(* the continuation, the read command and the read data are each issued at *)
(* most once, the status query at most twice (once after the write, once   *)
(* after the read), and chip-select High at most once.                     *)
(***************************************************************************)
Positions(P(_)) == {i \in 1..Len(xfers) : P(xfers[i])}
IsWriteCmd(x) == IsBridgeCmd(x, STLINK_BRIDGE_WRITE_SPI)
IsReadCmd(x) == IsBridgeCmd(x, STLINK_BRIDGE_READ_SPI)
IsStatusCmd(x) == IsBridgeCmd(x, STLINK_BRIDGE_GET_RWCMD_STATUS)
IsCsHighCmd(x) == IsNss(x, SPI_NSS_HIGH)
IsCsLowCmd(x) == IsNss(x, SPI_NSS_LOW)
IsContinuation(x) == x.tag = "write_arr"
IsReadData(x) == x.tag = "read_arr"
\* a transfer failed, or a poll was answered with a nonzero status
SomeStepFailed ==
    \/ \E i \in 1..Len(xfers) : ~XferSucceeded(xfers[i])
    \/ SomePollNonzero
C12_OneUnwindNoRetry ==
    pc \in TxPcs =>
        /\ (pc = "tx_done" /\ CsLowSucceeded /\ SomeStepFailed) =>
              /\ Cardinality(Positions(IsCsHighCmd)) = 1
              /\ tx_rc = -1
        /\ Cardinality(Positions(IsWriteCmd)) <= 1
        /\ Cardinality(Positions(IsContinuation)) <= 1
        /\ Cardinality(Positions(IsReadCmd)) <= 1
        /\ Cardinality(Positions(IsReadData)) <= 1
        /\ Cardinality(Positions(IsStatusCmd)) <= 2
        /\ Cardinality(Positions(IsCsHighCmd)) <= 1

(***************************************************************************)
(* C13: the first transfer of every transmit is the chip-select-Low        *)
(* command; when it or its acknowledgement fails, transmit returns failure *)
(* at once: nothing but that command (and its failed acknowledgement) is   *)
(* transferred.                                                            *)
(***************************************************************************)
C13_CsLowFirst ==
    pc \in TxPcs =>
        /\ xfers # <<>> => IsCsLowCmd(xfers[1])
        /\ pc # "tx_nss_low" => xfers # <<>>
        /\ (pc # "tx_nss_low" /\ ~CsLowSucceeded) =>
              /\ pc = "tx_done"
              /\ tx_rc = -1
              /\ Len(xfers) <= 2
              /\ Len(xfers) = 2 => xfers[2].tag = "answer"
              /\ Positions(IsCsHighCmd) = {}

\* the acknowledgement of chip-select Low failed and the call returned
C13_Witness ==
    /\ pc = "tx_done"
    /\ Len(xfers) = 2
    /\ XferSucceeded(xfers[1])
    /\ ~XferSucceeded(xfers[2])
    /\ tx_rc = -1

(***************************************************************************)
(* C14: the transfers of a successful transmit are, in this order:         *)
(* chip-select Low, write frame, continuation (only for a write length     *)
(* above 8), status query, read command and a read of read_cnt bytes (only *)
(* for read_cnt > 0), status query, chip-select High; the second status    *)
(* query is there for read_cnt = 0 too, and no call with read_cnt = 0 ever *)
(* sends a read command.                                                   *)
(***************************************************************************)
XferKind(x) ==
    IF x.tag = "answer" THEN <<"answer", x.len>>
    ELSE IF x.tag = "write_arr" THEN <<"continuation", x.len>>
    ELSE IF x.tag = "read_arr" THEN <<"read_data", x.len>>
    ELSE IF IsCsLowCmd(x) THEN <<"cs_low", x.len>>
    ELSE IF IsCsHighCmd(x) THEN <<"cs_high", x.len>>
    ELSE IF IsWriteCmd(x) THEN <<"write", x.len>>
    ELSE IF IsReadCmd(x) THEN <<"read", x.len>>
    ELSE IF IsStatusCmd(x) THEN <<"status", x.len>>
    ELSE <<"other", x.len>>
ExpectedKinds ==
    <<(<<"cs_low", 16>>), (<<"answer", 2>>), (<<"write", 16>>)>>
    \o (IF write_cnt > 8 THEN <<(<<"continuation", write_cnt - 8>>)>> ELSE <<>>)
    \o <<(<<"status", 16>>), (<<"answer", 8>>)>>
    \o (IF read_cnt > 0 THEN <<(<<"read", 16>>), (<<"read_data", read_cnt>>)>> ELSE <<>>)
    \o <<(<<"status", 16>>), (<<"answer", 8>>), (<<"cs_high", 16>>), (<<"answer", 2>>)>>
C14_SuccessfulOrder ==
    pc \in TxPcs =>
        /\ (pc = "tx_done" /\ tx_rc = 0) =>
              /\ [i \in 1..Len(xfers) |-> XferKind(xfers[i])] = ExpectedKinds
              /\ \A i \in 1..Len(xfers) : XferSucceeded(xfers[i])
              /\ \A i \in Positions(IsReadCmd) :
                    Byte(xfers[i].frame, 2) + 256 * Byte(xfers[i].frame, 3) = read_cnt
        /\ read_cnt = 0 => (Positions(IsReadCmd) = {} /\ Positions(IsReadData) = {})

\* a successful call without a read: two status queries, no read command
C14_Witness ==
    /\ pc = "tx_done"
    /\ tx_rc = 0
    /\ read_cnt = 0
    /\ write_cnt = 10
    /\ Cardinality(Positions(IsStatusCmd)) = 2
    /\ Len(xfers) = 10

(***************************************************************************)
(* C15: during init the STLINK_BRIDGE_INIT_SPI command is the fifth        *)
(* transfer only: it follows the version query, answered with a version of *)
(* at least 3, and then the clock query and its answer (so it is never     *)
(* sent after a failed clock query); its prescaler byte is in 0..7 and is  *)
(* the code of the divisor calc_prescaler chose (divisor = 2^(code + 1)).  *)
(***************************************************************************)
InitSpiCmds == {i \in 1..Len(xfers) : IsBridgeCmd(xfers[i], STLINK_BRIDGE_INIT_SPI)}
IsVersionCmd(x) == x.tag = "command" /\ Byte(x.frame, 0) = ST_GETVERSION_EXT
PrescalerByte(x) == Byte(x.frame, 6)
C15_InitSpiAfterQueries ==
    pc \in InitPcs =>
        \A i \in InitSpiCmds :
            /\ i = 5
            /\ IsVersionCmd(xfers[1]) /\ XferSucceeded(xfers[1])
            /\ xfers[2].tag = "answer" /\ XferSucceeded(xfers[2])
            /\ xfers[2].val >= 3
            /\ IsBridgeCmd(xfers[3], STLINK_BRIDGE_GET_CLOCK) /\ XferSucceeded(xfers[3])
            /\ xfers[4].tag = "answer" /\ XferSucceeded(xfers[4])
            /\ PrescalerByte(xfers[i]) \in 0..7
            /\ prescaler_value \in Divisors
            /\ Pow2(PrescalerByte(xfers[i]) + 1) = prescaler_value

\* a bridge clock of 48000 kHz and the default 1000 kHz: divisor 64, code 5
C15_Witness ==
    /\ pc = "init_spi_ans"
    /\ bridge_clk_in_kHz = 48000
    /\ sck_freq_kHz = 1000
    /\ prescaler_value = 64
    /\ InitSpiCmds = {5}
    /\ PrescalerByte(xfers[5]) = 5

(***************************************************************************)
(* C16: whenever calc_prescaler has carried out its division               *)
(* bridge_clk_in_kHz / sck_freq_kHz, the requested frequency is nonzero.   *)
(***************************************************************************)
\* the division was reached: the ladder has stored a divisor, or the
\* program trapped in calc_prescaler
DivisionReached ==
    \/ pc \in InitPcs /\ prescaler_value # 0
    \/ pc = "crashed" /\ fw_check_result = "FW_VERSION_OK"
C16_NoDivisionByZero ==
    DivisionReached => sck_freq_kHz # 0

(***************************************************************************)
(* C17: when init has returned failure, the libusb context is not live     *)
(* any more and the device handle is not open any more.                    *)
(***************************************************************************)
InitFailed == pc = "init_done" /\ init_rc # 0
C17_FailedInitReleasesAll ==
    InitFailed => (usb_ctx # "live" /\ stlinkv3_handle # "open")

(***************************************************************************)
(* C18: libusb_exit and libusb_close are each called at most once, and the *)
(* shutdown function makes no bulk transfer after the context was exited.  *)
(***************************************************************************)
\* the shutdown function has made a transfer and has not returned yet
ShutdownTransferred == pc \in {"shutdown_ans", "shutdown_release"}
C18_ReleasedOnce ==
    /\ exit_count <= 1
    /\ close_count <= 1
    /\ ShutdownTransferred => usb_ctx = "live"

====
